---- MODULE Spec2Model ----
(***************************************************************************)
(* zoomtiler: a Deep Zoom tile pyramid built from a row of source images.  *)
(* The model follows src/src/main.rs: run() probes the sources, sweeps the *)
(* finest tile grid through one ImgExtractor, halves the resolution level  *)
(* by level with compute_half_resolutions/half_res, and writes tiles.dzi.  *)
(* levels_for and half_res are also exercised on their own as functions.   *)
(***************************************************************************)
EXTENDS Integers, Sequences, FiniteSets, TLC

VARIABLES
    pc,                 \* position of run(): start, extract, save, pyramid,
                        \* reduce_begin, reduce, reduce_end, write_dzi, done,
                        \* error (an Err reached unwrap), panic (an assertion)
    img_sizes,          \* run: the probed (width, height) of every source
    height,             \* run: the common height (minimum of the heights)
    sizes,              \* ImgExtractor.sizes: img_sizes with every height cropped
    full_width,         \* ImgExtractor.full_width (= run's width_sum)
    full_height,        \* ImgExtractor.full_height
    levels,             \* run: number of pyramid levels
    tile_count_width,   \* run: finest grid, columns
    tile_count_height,  \* run: finest grid, rows
    tx, ty,             \* loop counters of the sweep in progress
    img_cache,          \* ImgExtractor.img_cache: source index -> decoded image
    img_tile,           \* the tile extract() returned and run() is about to save
    decodes,            \* how many times each source was opened and decoded
    files,              \* tiles_files/: (level, tx, ty) -> the tile persisted there
    parent_level,       \* run: level being halved
    parent_x_tiles,     \* run: columns of the level being halved
    parent_y_tiles,     \* run: rows of the level being halved
    loads,              \* what the four opens of the last 2x2 group returned
    swallowed,          \* an open of a tile inside the grid failed and was replaced
    dzi,                \* tiles/tiles.dzi, once written
    faults,             \* I/O failures of existing files injected so far
    call_pc,            \* a function exercised alone: call, ret, panic
    call_arg,           \* its argument
    call_ret            \* its result

run_vars == << pc, img_sizes, height, sizes, full_width, full_height, levels,
               tile_count_width, tile_count_height, tx, ty, img_cache, img_tile,
               decodes, files, parent_level, parent_x_tiles, parent_y_tiles,
               loads, swallowed, dzi, faults >>
call_vars == << call_pc, call_arg, call_ret >>
vars == << run_vars, call_vars >>

\* ------------------------------------------------------------------ bounds

\* Largest argument levels_for is exercised on.
MaxN == 1100
\* Largest k for which levels_for is also exercised around 2^k.
MaxShift == 27
\* Largest number of source images of a run.
MaxImgs == 2
\* Largest number of source images of a run of the extraction sweep.
MaxSrcs == 3
\* Largest edge of a tile handed to half_res.
MaxDim == 3
\* I/O failures of existing files injected in one run.
MaxFaults == 1

\* ---------------------------------------------------------------- helpers

Min(a, b) == IF a < b THEN a ELSE b
Max(a, b) == IF a > b THEN a ELSE b

RECURSIVE Pow2(_)
Pow2(k) == IF k = 0 THEN 1 ELSE 2 * Pow2(k - 1)

RECURSIVE SeqSum(_)
SeqSum(s) == IF s = <<>> THEN 0 ELSE Head(s) + SeqSum(Tail(s))

\* All sequences over S of length lo..hi.
SeqsOf(S, lo, hi) == UNION { [1..n -> S] : n \in lo..hi }

\* ------------------------------------------------------------ levels_for

\* usize is 64 bits wide.
num_bits == 64

RECURSIVE bit_length(_)
bit_length(x) == IF x = 0 THEN 0 ELSE 1 + bit_length(x \div 2)

\* usize::leading_zeros
leading_zeros(x) == num_bits - bit_length(x)

log_2(x) == num_bits - leading_zeros(x) - 1

\* assert!(n > 0)
levels_for_pre(n) == n > 0

\* A variant of levels_for without the extra level of a non power of two.
levels_for_l2plus1(n) ==
    IF n = 1 THEN 1 ELSE log_2(n) + 1

levels_for(n) ==
    IF n = 1 THEN 1
    ELSE LET l2 == log_2(n) IN
         IF n % Pow2(l2) # 0 THEN l2 + 2 ELSE l2 + 1

\* --------------------------------------------------------------- half_res

\* An RgbImage is [width, height, pix], pix a function of <<x, y>> to an
\* Rgb triple of u8. Where only the geometry of a tile matters (the tiles
\* persisted under tiles_files/) the record carries width and height alone.

\* ImageBuffer::get_pixel
get_pixel(img, x, y) == img.pix[<<x, y>>]

\* The four assert_eq! at the head of half_res.
half_res_pre(top_left, top_right, bottom_left, bottom_right) ==
    /\ top_left.width = bottom_left.width
    /\ top_left.height = top_right.height
    /\ bottom_right.width = top_right.width
    /\ bottom_right.height = bottom_left.height

half_width(top_left, top_right) ==
    (top_left.width + top_right.width + 1) \div 2

half_height(top_left, bottom_left) ==
    (top_left.height + bottom_left.height + 1) \div 2

\* The closure img_source_and_offset: the quadrant owning (x, y).
img_source_and_offset(top_left, top_right, bottom_left, bottom_right, x, y) ==
    IF x < top_left.width /\ y < top_left.height
    THEN [img |-> top_left, offset_x |-> 0, offset_y |-> 0]
    ELSE IF x < top_left.width
    THEN [img |-> bottom_left, offset_x |-> 0, offset_y |-> top_left.height]
    ELSE IF y < top_left.height
    THEN [img |-> top_right, offset_x |-> top_left.width, offset_y |-> 0]
    ELSE [img |-> bottom_right, offset_x |-> top_left.width,
          offset_y |-> top_left.height]

\* The closure extract_pixel: <<>> is None, <<p>> is Some(p).
extract_pixel(top_left, top_right, bottom_left, bottom_right, target_x, target_y) ==
    LET s == img_source_and_offset(top_left, top_right, bottom_left,
                                   bottom_right, target_x, target_y)
        local_x == target_x - s.offset_x
        local_y == target_y - s.offset_y
    IN  IF local_x >= s.img.width \/ local_y >= s.img.height
        THEN <<>>
        ELSE << get_pixel(s.img, local_x, local_y) >>

\* The fold over the four subpixels: (pix_count, pix_sum), both u16.
RECURSIVE fold_pixels(_, _)
fold_pixels(pixels, acc) ==
    IF pixels = <<>> THEN acc
    ELSE LET maybe_pix == Head(pixels)
             next == IF maybe_pix = <<>> THEN acc
                     ELSE [count |-> (acc.count + 1) % 65536,
                           sum |-> [c \in 1..3 |->
                                      (acc.sum[c] + maybe_pix[1][c]) % 65536]]
         IN  fold_pixels(Tail(pixels), next)

subpixels(top_left, top_right, bottom_left, bottom_right, x, y) ==
    << extract_pixel(top_left, top_right, bottom_left, bottom_right, 2 * x, 2 * y),
       extract_pixel(top_left, top_right, bottom_left, bottom_right, 2 * x + 1, 2 * y),
       extract_pixel(top_left, top_right, bottom_left, bottom_right, 2 * x, 2 * y + 1),
       extract_pixel(top_left, top_right, bottom_left, bottom_right, 2 * x + 1, 2 * y + 1) >>

pixel_stats(top_left, top_right, bottom_left, bottom_right, x, y) ==
    fold_pixels(subpixels(top_left, top_right, bottom_left, bottom_right, x, y),
                [count |-> 0, sum |-> [c \in 1..3 |-> 0]])

\* A variant of channel_mean dividing by a fixed 4.
channel_mean_by4(pix_sum, pix_count) == (pix_sum \div 4) % 256

\* (pix_sum[c] / pix_count) as u8
channel_mean(pix_sum, pix_count) == (pix_sum \div pix_count) % 256

\* The division by pix_count panics when no subpixel is present.
half_res_div_ok(top_left, top_right, bottom_left, bottom_right) ==
    \A x \in 0..(half_width(top_left, top_right) - 1) :
      \A y \in 0..(half_height(top_left, bottom_left) - 1) :
        pixel_stats(top_left, top_right, bottom_left, bottom_right, x, y).count # 0

half_res(top_left, top_right, bottom_left, bottom_right) ==
    LET w == half_width(top_left, top_right)
        h == half_height(top_left, bottom_left)
    IN  [width |-> w, height |-> h,
         pix |-> [p \in (0..(w - 1)) \X (0..(h - 1)) |->
                    LET st == pixel_stats(top_left, top_right, bottom_left,
                                          bottom_right, p[1], p[2])
                    IN  [c \in 1..3 |-> channel_mean(st.sum[c], st.count)]]]

\* The geometry of half_res's result, for tiles whose pixels are not tracked.
half_res_size(top_left, top_right, bottom_left, bottom_right) ==
    [width |-> half_width(top_left, top_right),
     height |-> half_height(top_left, bottom_left)]

\* ----------------------------------------------------------- ImgExtractor

\* run(): let tile_size = 512
tile_size == 512

\* A decoded source, and every crop or view of it, is a rectangle of the
\* source's pixels: [src, x0, y0, width, height]. Its pixel (x, y) is the
\* source's pixel (x0 + x, y0 + y), written <<src, x0 + x, y0 + y>>.
ImgPixel(img, x, y) == << img.src, img.x0 + x, img.y0 + y >>

\* RgbImage::new is zero-filled: a pixel no copy has written.
Black == << -1, 0, 0 >>

\* ImageReader::open(&self.paths[id])?.decode()?.into_rgb8(): the whole file.
decode(probed, id) ==
    [src |-> id, x0 |-> 0, y0 |-> 0,
     width |-> probed[id + 1][1], height |-> probed[id + 1][2]]

\* crop_imm(&img, 0, 0, img.width(), img_height).to_image(); crop_imm clamps
\* the rectangle to the image.
crop(img, img_height) ==
    [src |-> img.src, x0 |-> img.x0 + 0, y0 |-> img.y0 + 0,
     width |-> Min(img.width, img.width - 0),
     height |-> Min(img_height, img.height - 0)]

\* GenericImageView::view asserts that the rectangle lies inside the image.
view_pre(img, x, y, vw, vh) ==
    /\ x + vw <= img.width
    /\ y + vh <= img.height

\* SubImage: the rectangle of img at (x, y), vw wide and vh high.
view(img, x, y, vw, vh) ==
    [src |-> img.src, x0 |-> img.x0 + x, y0 |-> img.y0 + y,
     width |-> vw, height |-> vh]

\* GenericImage::copy_from returns Err when the source does not fit.
copy_from_pre(tile, other, x, y) ==
    /\ tile.width >= other.width + x
    /\ tile.height >= other.height + y

\* copy_from writes other's pixel (i, j) to (i + x, j + y): one more blit.
copy_from(tile, other, x, y) ==
    [tile EXCEPT !.blits = Append(@, [x |-> x, y |-> y, view |-> other])]

\* The pixel of a tile: what the last blit covering it wrote, else Black.
RECURSIVE BlitPixel(_, _, _, _)
BlitPixel(blits, i, px, py) ==
    IF i = 0 THEN Black
    ELSE LET b == blits[i] IN
         IF /\ b.x <= px /\ px < b.x + b.view.width
            /\ b.y <= py /\ py < b.y + b.view.height
         THEN ImgPixel(b.view, px - b.x, py - b.y)
         ELSE BlitPixel(blits, i - 1, px, py)

TilePixel(tile, px, py) == BlitPixel(tile.blits, Len(tile.blits), px, py)

NoTile == [width |-> 0, height |-> 0, blits |-> <<>>]

\* if left <= accum_left + w: the source is used for the tile.
uses_source(left, accum_left, w) == left <= accum_left + w

\* (left as i64 - accum_left as i64).max(0) as u32
inner_left_of(left, accum_left) == Max(left - accum_left, 0)

\* A variant of tile_inner_left_of copying every source to the tile's left edge.
tile_inner_left_zero(accum_left, left) == 0

\* (accum_left as i64 - left as i64).max(0) as u32
tile_inner_left_of(accum_left, left) == Max(accum_left - left, 0)

\* A variant of cache_hit that never reuses an entry.
cache_hit_never(cache, id) == FALSE

\* match self.img_cache.entry(id): an occupied entry is reused.
cache_hit(cache, id) == id \in DOMAIN cache

\* self.img_cache.remove(&id)
cache_remove(cache, id) == [k \in DOMAIN cache \ {id} |-> cache[k]]

cache_insert(cache, id, img) ==
    [k \in DOMAIN cache \cup {id} |-> IF k = id THEN img ELSE cache[k]]

\* The loop of extract over self.sizes, from source index i - 1 on. st is
\* [result, cache, tile, decodes]; fail is the source whose open or decode
\* fails (-1: none). result: ok, error (an Err is returned), panic (an
\* unsigned subtraction below zero, or the assertion of view).
RECURSIVE extract_loop(_, _, _, _, _, _, _, _, _, _, _)
extract_loop(st, i, accum_left, probed, szs, img_height, left, top, right, bottom, fail) ==
    IF i > Len(szs) THEN st
    ELSE
    LET id == i - 1
        w == szs[i][1]
        used == uses_source(left, accum_left, w)
        hit == cache_hit(st.cache, id)
        cache1 == IF hit THEN st.cache
                  ELSE cache_insert(st.cache, id, crop(decode(probed, id), img_height))
        decodes1 == IF hit THEN st.decodes ELSE [st.decodes EXCEPT ![id] = @ + 1]
        img == cache1[id]
        inner_left == inner_left_of(left, accum_left)
        inner_right == Min(right - accum_left, w)
        inner_width == inner_right - inner_left
        tile_inner_left == tile_inner_left_of(accum_left, left)
        img_view == view(img, inner_left, top, inner_width, bottom - top)
        after ==
            IF used
            THEN IF ~hit /\ fail = id
                 THEN [st EXCEPT !.result = "error"]
                 ELSE IF \/ right < accum_left
                         \/ inner_right < inner_left
                         \/ ~view_pre(img, inner_left, top, inner_width, bottom - top)
                 THEN [st EXCEPT !.result = "panic", !.cache = cache1,
                                 !.decodes = decodes1]
                 ELSE IF ~copy_from_pre(st.tile, img_view, tile_inner_left, 0)
                 THEN [st EXCEPT !.result = "error", !.cache = cache1,
                                 !.decodes = decodes1]
                 ELSE [result |-> "ok",
                       cache |-> cache1,
                       tile |-> copy_from(st.tile, img_view, tile_inner_left, 0),
                       decodes |-> decodes1]
            ELSE IF id \in DOMAIN st.cache
                 THEN [st EXCEPT !.cache = cache_remove(st.cache, id)]
                 ELSE st
    IN  IF after.result # "ok" THEN after
        ELSE IF accum_left + w >= right THEN after
        ELSE extract_loop(after, i + 1, accum_left + w, probed, szs, img_height,
                          left, top, right, bottom, fail)

\* ImgExtractor::extract(img_height, tile_size, tx, ty). ex is the extractor,
\* [sizes, full_width, full_height, cache, decodes]; probed are the files'
\* own sizes, which decode returns.
extract(ex, probed, img_height, tsize, tile_x, tile_y, fail) ==
    LET left == tile_x * tsize
        top == tile_y * tsize
        right == Min(left + tsize, ex.full_width)
        bottom == Min(top + tsize, ex.full_height)
        tile_width == Min(tsize, right - left)
        tile_height == Min(tsize, bottom - top)
    IN  IF right < left \/ bottom < top
        THEN [result |-> "panic", cache |-> ex.cache, tile |-> NoTile,
              decodes |-> ex.decodes]
        ELSE extract_loop([result |-> "ok", cache |-> ex.cache,
                           tile |-> [width |-> tile_width, height |-> tile_height,
                                     blits |-> <<>>],
                           decodes |-> ex.decodes],
                          1, 0, probed, ex.sizes, img_height,
                          left, top, right, bottom, fail)

\* ------------------------------------------------ compute_half_resolutions

\* img_out_path(dir of the level, tx, ty): <level>/<tx>_<ty>.jpg
img_out_path(level, tile_x, tile_y) == << level, tile_x, tile_y >>

\* A variant of half_tile_count rounding down.
half_tile_count_floor(n) == n \div 2

\* (tile_count + 1) / 2
half_tile_count(n) == (n + 1) \div 2

\* Err(_) => RgbImage::new(0, top_left.height())
top_right_placeholder(top_left) == [width |-> 0, height |-> top_left.height]

\* Err(_) => RgbImage::new(top_left.width(), 0)
bottom_left_placeholder(top_left) == [width |-> top_left.width, height |-> 0]

\* Err(_) => RgbImage::new(top_right.width(), bottom_left.height())
bottom_right_placeholder(top_right, bottom_left) ==
    [width |-> top_right.width, height |-> bottom_left.height]

\* What opening and decoding the tile at path can return: a missing file is
\* never opened; an existing one may fail to open or to decode while the
\* budget of injected failures lasts.
LoadOutcomes(fs, path, budget) ==
    IF path \notin DOMAIN fs THEN {"open_err"}
    ELSE IF budget > 0 THEN {"ok", "open_err", "decode_err"}
    ELSE {"ok"}

\* The paths of the 2x2 group (gx, gy) of level previous_lvl, in the order
\* they are opened: top_left, top_right, bottom_left, bottom_right.
group_paths(previous_lvl, gx, gy) ==
    << img_out_path(previous_lvl, gx * 2, gy * 2),
       img_out_path(previous_lvl, gx * 2 + 1, gy * 2),
       img_out_path(previous_lvl, gx * 2, gy * 2 + 1),
       img_out_path(previous_lvl, gx * 2 + 1, gy * 2 + 1) >>

\* Failures injected by the outcomes o: a file that exists and did not load.
injected(fs, paths, o) ==
    Cardinality({ k \in 1..4 : paths[k] \in DOMAIN fs
                               /\ o[k] \in {"open_err", "decode_err"} })

\* The outcomes of one pass through the loop body: an open after the `?`
\* that returned is not attempted ("none").
GroupOutcomes(fs, paths, budget) ==
    { o \in [1..4 -> {"ok", "open_err", "decode_err", "none"}] :
        /\ o[1] \in LoadOutcomes(fs, paths[1], budget)
        /\ IF o[1] # "ok" THEN o[2] = "none"
           ELSE o[2] \in LoadOutcomes(fs, paths[2], budget)
        /\ IF o[2] \in {"none", "decode_err"} THEN o[3] = "none"
           ELSE o[3] \in LoadOutcomes(fs, paths[3], budget)
        /\ IF o[3] \in {"none", "decode_err"} THEN o[4] = "none"
           ELSE o[4] \in LoadOutcomes(fs, paths[4], budget)
        /\ injected(fs, paths, o) <= budget }

\* The loop body of compute_half_resolutions for the group (gx, gy), given
\* what the four opens return: [result, img], result ok, error or panic.
reduce_group(fs, previous_lvl, gx, gy, o) ==
    LET paths == group_paths(previous_lvl, gx, gy)
        top_left == fs[paths[1]]
        top_right == IF o[2] = "ok" THEN fs[paths[2]]
                     ELSE top_right_placeholder(top_left)
        bottom_left == IF o[3] = "ok" THEN fs[paths[3]]
                       ELSE bottom_left_placeholder(top_left)
        bottom_right == IF o[4] = "ok" THEN fs[paths[4]]
                        ELSE bottom_right_placeholder(top_right, bottom_left)
    IN  IF o[1] # "ok" \/ "decode_err" \in {o[2], o[3], o[4]}
        THEN [result |-> "error", img |-> [width |-> 0, height |-> 0]]
        ELSE IF ~half_res_pre(top_left, top_right, bottom_left, bottom_right)
        THEN [result |-> "panic", img |-> [width |-> 0, height |-> 0]]
        ELSE [result |-> "ok",
              img |-> half_res_size(top_left, top_right, bottom_left, bottom_right)]

\* A tile of the level's own grid whose failed open was replaced by a
\* placeholder.
swallows(previous_lvl, gx, gy, count_w, count_h, o) ==
    LET paths == group_paths(previous_lvl, gx, gy) IN
    \E k \in 2..4 : /\ o[k] = "open_err"
                    /\ paths[k][2] < count_w
                    /\ paths[k][3] < count_h

FilePut(fs, path, img) ==
    [k \in DOMAIN fs \cup {path} |-> IF k = path THEN img ELSE fs[k]]

\* -------------------------------------------------------------------- run

NoLoads == [k \in 1..4 |-> "none"]

\* img_sizes.iter().min_by_key(|(_, h)| h).unwrap().1
min_height(probed) ==
    CHOOSE h \in { probed[i][2] : i \in DOMAIN probed } :
        \A i \in DOMAIN probed : h <= probed[i][2]

\* (n + tile_size - 1) / tile_size
tile_count(n) == (n + tile_size - 1) \div tile_size

Extractor == [sizes |-> sizes, full_width |-> full_width,
              full_height |-> full_height, cache |-> img_cache,
              decodes |-> decodes]

\* run(), lines 29-83: the assertion on the arguments, the output directory,
\* the probe of every source, the crop of the sizes, the grid, the levels,
\* the extractor, and the entry of the sweep (tx outer, ty inner). fails: a
\* create_dir_all or imagesize::size returned Err.
RunSetup ==
    /\ pc = "start"
    /\ \E fails \in BOOLEAN :
        IF img_sizes = <<>>
        THEN /\ pc' = "panic"
             /\ UNCHANGED << height, sizes, full_width, full_height, levels,
                             tile_count_width, tile_count_height, decodes >>
        ELSE IF fails
        THEN /\ pc' = "error"
             /\ UNCHANGED << height, sizes, full_width, full_height, levels,
                             tile_count_width, tile_count_height, decodes >>
        ELSE LET h == min_height(img_sizes)
                 cropped == [i \in DOMAIN img_sizes |-> << img_sizes[i][1], h >>]
                 width_sum == SeqSum([i \in DOMAIN img_sizes |-> cropped[i][1]])
             IN  IF ~levels_for_pre(Max(width_sum, h))
                 THEN /\ pc' = "panic"
                      /\ UNCHANGED << height, sizes, full_width, full_height, levels,
                                      tile_count_width, tile_count_height, decodes >>
                 ELSE /\ pc' = IF tile_count(width_sum) > 0 /\ tile_count(h) > 0
                               THEN "extract" ELSE "pyramid"
                      /\ height' = h
                      /\ sizes' = cropped
                      /\ full_width' = width_sum
                      /\ full_height' = cropped[1][2]
                      /\ levels' = levels_for(Max(width_sum, h))
                      /\ tile_count_width' = tile_count(width_sum)
                      /\ tile_count_height' = tile_count(h)
                      /\ decodes' = [id \in 0..(Len(img_sizes) - 1) |-> 0]
    /\ UNCHANGED << img_sizes, tx, ty, img_cache, img_tile, files, parent_level,
                    parent_x_tiles, parent_y_tiles, loads, swallowed, dzi, faults >>
    /\ UNCHANGED call_vars

\* run(), line 85: extractor.extract(height, tile_size, tx, ty)?
ExtractTile ==
    /\ pc = "extract"
    /\ \E fail \in -1..(Len(img_sizes) - 1) :
        LET r == extract(Extractor, img_sizes, height, tile_size, tx, ty, fail) IN
        /\ pc' = IF r.result = "ok" THEN "save" ELSE r.result
        /\ img_cache' = r.cache
        /\ decodes' = r.decodes
        /\ img_tile' = IF r.result = "ok" THEN r.tile ELSE NoTile
    /\ UNCHANGED << img_sizes, height, sizes, full_width, full_height, levels,
                    tile_count_width, tile_count_height, tx, ty, files,
                    parent_level, parent_x_tiles, parent_y_tiles, loads,
                    swallowed, dzi, faults >>
    /\ UNCHANGED call_vars

\* run(), line 86 and the two for loops: img.save(...)?, then the next tile
\* of the column, the next column, or the end of the sweep.
SaveTile ==
    /\ pc = "save"
    /\ \E saved \in BOOLEAN :
        IF ~saved
        THEN /\ pc' = "error"
             /\ UNCHANGED << tx, ty, files >>
        ELSE /\ files' = FilePut(files, img_out_path(levels - 1, tx, ty),
                                 [width |-> img_tile.width,
                                  height |-> img_tile.height])
             /\ IF ty + 1 < tile_count_height
                THEN pc' = "extract" /\ ty' = ty + 1 /\ tx' = tx
                ELSE IF tx + 1 < tile_count_width
                THEN pc' = "extract" /\ ty' = 0 /\ tx' = tx + 1
                ELSE pc' = "pyramid" /\ UNCHANGED << tx, ty >>
    /\ img_tile' = NoTile
    /\ UNCHANGED << img_sizes, height, sizes, full_width, full_height, levels,
                    tile_count_width, tile_count_height, img_cache, decodes,
                    parent_level, parent_x_tiles, parent_y_tiles,
                    loads, swallowed, dzi, faults >>
    /\ UNCHANGED call_vars

\* run(), lines 92-94: the finest grid is the first parent grid and the loop
\* over (1..levels).rev() starts at levels - 1, if there is a level to halve.
PyramidBegin ==
    /\ pc = "pyramid"
    /\ parent_x_tiles' = tile_count_width
    /\ parent_y_tiles' = tile_count_height
    /\ parent_level' = levels - 1
    /\ pc' = IF levels - 1 >= 1 THEN "reduce_begin" ELSE "write_dzi"
    /\ UNCHANGED << img_sizes, height, sizes, full_width, full_height, levels,
                    tile_count_width, tile_count_height, tx, ty, img_cache,
                    img_tile, decodes, files, loads, swallowed, dzi, faults >>
    /\ UNCHANGED call_vars

\* compute_half_resolutions, lines 120-125: the directory of the level below
\* is created and the loops over the half grid start.
ReduceBegin ==
    /\ pc = "reduce_begin"
    /\ \E fails \in BOOLEAN :
        IF fails
        THEN pc' = "error" /\ UNCHANGED << tx, ty >>
        ELSE /\ pc' = IF /\ half_tile_count(parent_x_tiles) > 0
                         /\ half_tile_count(parent_y_tiles) > 0
                      THEN "reduce" ELSE "reduce_end"
             /\ tx' = 0
             /\ ty' = 0
    /\ UNCHANGED << img_sizes, height, sizes, full_width, full_height, levels,
                    tile_count_width, tile_count_height, img_cache, img_tile,
                    decodes, files, parent_level, parent_x_tiles, parent_y_tiles,
                    loads, swallowed, dzi, faults >>
    /\ UNCHANGED call_vars

\* compute_half_resolutions, lines 126-146: one 2x2 group is opened, halved
\* and saved; then the next group of the column, the next column, or the end
\* of the level.
ReduceTile ==
    /\ pc = "reduce"
    /\ LET paths == group_paths(parent_level, tx, ty) IN
       \E o \in GroupOutcomes(files, paths, MaxFaults - faults), saved \in BOOLEAN :
        LET r == reduce_group(files, parent_level, tx, ty, o) IN
        /\ loads' = o
        /\ faults' = faults + injected(files, paths, o)
        /\ swallowed' = (swallowed \/ swallows(parent_level, tx, ty,
                                               parent_x_tiles, parent_y_tiles, o))
        /\ IF r.result # "ok"
           THEN pc' = r.result /\ UNCHANGED << tx, ty, files >>
           ELSE IF ~saved
           THEN pc' = "error" /\ UNCHANGED << tx, ty, files >>
           ELSE /\ files' = FilePut(files, img_out_path(parent_level - 1, tx, ty),
                                    r.img)
                /\ IF ty + 1 < half_tile_count(parent_y_tiles)
                   THEN pc' = "reduce" /\ ty' = ty + 1 /\ tx' = tx
                   ELSE IF tx + 1 < half_tile_count(parent_x_tiles)
                   THEN pc' = "reduce" /\ ty' = 0 /\ tx' = tx + 1
                   ELSE pc' = "reduce_end" /\ UNCHANGED << tx, ty >>
    /\ UNCHANGED << img_sizes, height, sizes, full_width, full_height, levels,
                    tile_count_width, tile_count_height, img_cache, img_tile,
                    decodes, parent_level, parent_x_tiles, parent_y_tiles, dzi >>
    /\ UNCHANGED call_vars

\* compute_half_resolutions, line 147, and run(), lines 94-103: the half grid
\* is returned and becomes the parent grid, and the loop goes one level down
\* or ends.
ReduceEnd ==
    /\ pc = "reduce_end"
    /\ parent_x_tiles' = half_tile_count(parent_x_tiles)
    /\ parent_y_tiles' = half_tile_count(parent_y_tiles)
    /\ parent_level' = parent_level - 1
    /\ pc' = IF parent_level - 1 >= 1 THEN "reduce_begin" ELSE "write_dzi"
    /\ UNCHANGED << img_sizes, height, sizes, full_width, full_height, levels,
                    tile_count_width, tile_count_height, tx, ty, img_cache,
                    img_tile, decodes, files, loads, swallowed, dzi, faults >>
    /\ UNCHANGED call_vars

\* run(), lines 106-110: std::fs::write("tiles/tiles.dzi", xml_content)
WriteDzi ==
    /\ pc = "write_dzi"
    /\ \E written \in BOOLEAN :
        IF written
        THEN /\ pc' = "done"
             /\ dzi' = << [TileSize |-> tile_size, Width |-> full_width,
                           Height |-> height] >>
        ELSE /\ pc' = "error" /\ UNCHANGED dzi
    /\ UNCHANGED << img_sizes, height, sizes, full_width, full_height, levels,
                    tile_count_width, tile_count_height, tx, ty, img_cache,
                    img_tile, decodes, files, parent_level, parent_x_tiles,
                    parent_y_tiles, loads, swallowed, faults >>
    /\ UNCHANGED call_vars

\* ------------------------------------------------------- specifications

\* The probed sizes of the sources of a run: tiles clipped on both axes,
\* grids of up to 3 x 3 tiles, single-tile and single-pixel canvases.
RunSizes == { << 1, 1 >>, << 300, 100 >>, << 512, 513 >>, << 700, 1100 >> }

\* The probed sizes of the sources of an extraction sweep: sources ending on
\* a tile edge, several sources in one tile, one source over several tiles,
\* heights to crop, a second row of tiles.
SweepSizes == { << 1, 1 >>, << 1, 514 >>, << 300, 2 >>, << 512, 3 >>,
                << 212, 513 >>, << 1100, 2 >> }

RunState(at, probed) ==
    /\ pc = at
    /\ img_sizes = probed
    /\ height = 0
    /\ sizes = <<>>
    /\ full_width = 0
    /\ full_height = 0
    /\ levels = 0
    /\ tile_count_width = 0
    /\ tile_count_height = 0
    /\ tx = 0
    /\ ty = 0
    /\ img_cache = << >>
    /\ img_tile = NoTile
    /\ decodes = << >>
    /\ files = << >>
    /\ parent_level = 0
    /\ parent_x_tiles = 0
    /\ parent_y_tiles = 0
    /\ loads = NoLoads
    /\ swallowed = FALSE
    /\ dzi = << >>
    /\ faults = 0

\* A run about to start on the sources probed.
RunStart(probed) == RunState("start", probed)

\* No run: a function is exercised alone.
NoRun == RunState("none", << >>)

NoCall ==
    /\ call_pc = "none"
    /\ call_arg = 0
    /\ call_ret = 0

Init ==
    /\ \E probed \in SeqsOf(RunSizes, 0, MaxImgs) : RunStart(probed)
    /\ NoCall

Next ==
    \/ RunSetup
    \/ ExtractTile
    \/ SaveTile
    \/ PyramidBegin
    \/ ReduceBegin
    \/ ReduceTile
    \/ ReduceEnd
    \/ WriteDzi

Spec == Init /\ [][Next]_vars

InitSweep ==
    /\ \E probed \in SeqsOf(SweepSizes, 0, MaxSrcs) : RunStart(probed)
    /\ NoCall

SpecSweep == InitSweep /\ [][Next]_vars

\* The arguments just below, at and just above the powers of two up to
\* 2^MaxShift.
AroundPowers == { Pow2(k) + d : k \in 1..MaxShift, d \in {-1, 0, 1} }

\* levels_for exercised alone on every n up to MaxN and around the larger
\* powers of two.
InitLevels ==
    /\ NoRun
    /\ call_pc = "call"
    /\ call_arg \in (0..MaxN) \cup AroundPowers
    /\ call_ret = 0

\* assert!(n > 0) fails.
LevelsForPanic ==
    /\ call_pc = "call"
    /\ ~levels_for_pre(call_arg)
    /\ call_pc' = "panic"
    /\ UNCHANGED << call_arg, call_ret >>
    /\ UNCHANGED run_vars

LevelsForReturn ==
    /\ call_pc = "call"
    /\ levels_for_pre(call_arg)
    /\ call_pc' = "ret"
    /\ call_ret' = levels_for(call_arg)
    /\ UNCHANGED call_arg
    /\ UNCHANGED run_vars

NextLevels == LevelsForPanic \/ LevelsForReturn

SpecLevels == InitLevels /\ [][NextLevels]_vars

\* The tiles half_res is exercised on: a gradient over a base colour, so that
\* neighbouring pixels, channels and quadrants all differ and sums wrap u8.
Bases == { << 0, 0, 0 >>, << 250, 128, 255 >> }

MkImage(w, h, base) ==
    [width |-> w, height |-> h,
     pix |-> [p \in (0..(w - 1)) \X (0..(h - 1)) |->
                << (base[1] + 3 * p[1] + 7 * p[2]) % 256,
                   (base[2] + 5 * p[1] + 11 * p[2]) % 256,
                   (base[3] + p[1] * p[2]) % 256 >>]]

\* Which size, if any, is one more than half_res asserts it to be.
Skews == { "none", "top_right.height", "bottom_left.width",
           "bottom_right.width", "bottom_right.height" }

Skew(skew, dim) == IF skew = dim THEN 1 ELSE 0

\* half_res exercised alone: top_left is never empty, the right and bottom
\* tiles may be (the placeholders of compute_half_resolutions).
InitHalfRes ==
    /\ NoRun
    /\ call_pc = "call"
    /\ call_ret = 0
    /\ \E tlw \in 1..MaxDim, tlh \in 1..MaxDim, trw \in 0..MaxDim,
          blh \in 0..MaxDim, skew \in Skews, b \in [1..4 -> Bases] :
        call_arg = << MkImage(tlw, tlh, b[1]),
                      MkImage(trw, tlh + Skew(skew, "top_right.height"), b[2]),
                      MkImage(tlw + Skew(skew, "bottom_left.width"), blh, b[3]),
                      MkImage(trw + Skew(skew, "bottom_right.width"),
                              blh + Skew(skew, "bottom_right.height"), b[4]) >>

\* half_res returns when its assertions hold and no division is by zero.
half_res_returns(a) ==
    /\ half_res_pre(a[1], a[2], a[3], a[4])
    /\ half_res_div_ok(a[1], a[2], a[3], a[4])

HalfResPanic ==
    /\ call_pc = "call"
    /\ ~half_res_returns(call_arg)
    /\ call_pc' = "panic"
    /\ UNCHANGED << call_arg, call_ret >>
    /\ UNCHANGED run_vars

HalfResReturn ==
    /\ call_pc = "call"
    /\ half_res_returns(call_arg)
    /\ call_pc' = "ret"
    /\ call_ret' = half_res(call_arg[1], call_arg[2], call_arg[3], call_arg[4])
    /\ UNCHANGED call_arg
    /\ UNCHANGED run_vars

NextHalfRes == HalfResPanic \/ HalfResReturn

SpecHalfRes == InitHalfRes /\ [][NextHalfRes]_vars

\* ------------------------------------------------------------------ C3

RECURSIVE CeilLog2From(_, _)
CeilLog2From(n, k) == IF Pow2(k) >= n THEN k ELSE CeilLog2From(n, k + 1)

\* The least k with 2^k >= n.
CeilLog2(n) == CeilLog2From(n, 0)

\* C3: levels_for(1) = 1; levels_for(2^k) = k + 1 for every k >= 1;
\* levels_for(n) = k + 2 for every 2^k < n < 2^(k+1); so levels_for(n) is
\* ceil(log2(n)) + 1 for every n >= 1; and levels_for(0) fails its assertion
\* instead of returning a value.
C3_LevelsFor ==
    /\ call_pc = "ret" =>
        /\ call_arg >= 1
        /\ call_arg = 1 => call_ret = 1
        /\ \A k \in 0..CeilLog2(call_arg) :
            /\ (k >= 1 /\ call_arg = Pow2(k)) => call_ret = k + 1
            /\ (Pow2(k) < call_arg /\ call_arg < Pow2(k + 1)) => call_ret = k + 2
        /\ call_ret = CeilLog2(call_arg) + 1
    /\ call_pc = "panic" => call_arg = 0
    /\ call_arg = 0 => call_pc \in {"call", "panic"}

C3_Witness == call_pc = "ret" /\ call_arg = 513 /\ call_ret = 11

\* ------------------------------------------------------------------ C2

\* The four tiles laid edge to edge: the pixel at (X, Y) of the 2x2 block.
BlockPixel(a, X, Y) ==
    IF X < a[1].width
    THEN IF Y < a[1].height THEN a[1].pix[<< X, Y >>]
         ELSE a[3].pix[<< X, Y - a[1].height >>]
    ELSE IF Y < a[1].height THEN a[2].pix[<< X - a[1].width, Y >>]
         ELSE a[4].pix[<< X - a[1].width, Y - a[1].height >>]

\* The coordinates under output pixel (x, y) that lie inside the block.
Present(a, x, y) ==
    { c \in {2 * x, 2 * x + 1} \X {2 * y, 2 * y + 1} :
        /\ c[1] < a[1].width + a[2].width
        /\ c[2] < a[1].height + a[3].height }

RECURSIVE ChannelSum(_, _, _)
ChannelSum(a, cs, ch) ==
    IF cs = {} THEN 0
    ELSE LET c == CHOOSE c \in cs : TRUE
         IN  BlockPixel(a, c[1], c[2])[ch] + ChannelSum(a, cs \ {c}, ch)

\* C2: when the size preconditions of half_res hold, it returns a tile of
\* the ceiling-half size whose every channel at (x, y) is the floor of the
\* sum over the count of exactly the subpixels (2x,2y), (2x+1,2y), (2x,2y+1),
\* (2x+1,2y+1) that lie inside the four tiles' combined extent; that count is
\* between 1 and 4, never 0.
C2_HalfResMean ==
    /\ call_pc = "ret" =>
        LET a == call_arg
            W == a[1].width + a[2].width
            H == a[1].height + a[3].height
        IN  /\ half_res_pre(a[1], a[2], a[3], a[4])
            /\ call_ret.width = (W + 1) \div 2
            /\ call_ret.height = (H + 1) \div 2
            /\ DOMAIN call_ret.pix =
                 (0..(call_ret.width - 1)) \X (0..(call_ret.height - 1))
            /\ \A p \in DOMAIN call_ret.pix :
                LET cs == Present(a, p[1], p[2])
                    n == Cardinality(cs)
                IN  /\ n \in 1..4
                    /\ \A ch \in 1..3 :
                         call_ret.pix[p][ch] = ChannelSum(a, cs, ch) \div n
    /\ call_pc = "panic" =>
        ~half_res_pre(call_arg[1], call_arg[2], call_arg[3], call_arg[4])

\* All four tiles present with an odd-sized top_left: output pixel (1, 1)
\* takes one subpixel from each tile, the last row and column have fewer.
C2_Witness ==
    /\ call_pc = "ret"
    /\ call_arg[1].width = 3 /\ call_arg[1].height = 3
    /\ call_arg[2].width = 2 /\ call_arg[3].height = 2
    /\ Cardinality(Present(call_arg, 2, 2)) = 1
    /\ Cardinality(Present(call_arg, 1, 1)) = 4
    /\ call_ret.pix[<< 2, 1 >>] # call_ret.pix[<< 1, 1 >>]

\* ------------------------------------------------------- reference canvas

\* The canvas the sources form when each is cropped to the least height and
\* they are placed left to right.
CanvasWidth(probed) == SeqSum([i \in DOMAIN probed |-> probed[i][1]])

CanvasHeight(probed) ==
    CHOOSE h \in { probed[i][2] : i \in DOMAIN probed } :
        \A i \in DOMAIN probed : probed[i][2] >= h

\* The canvas x at which source id (from 0) starts.
SourceStart(probed, id) == SeqSum([i \in 1..id |-> probed[i][1]])

\* The pixel at (X, Y) of the canvas: the pixel (X - start, Y) of the one
\* source with start <= X < start + width.
CanvasPixel(probed, X, Y) ==
    LET id == CHOOSE k \in 0..(Len(probed) - 1) :
                  /\ SourceStart(probed, k) <= X
                  /\ X < SourceStart(probed, k) + probed[k + 1][1]
    IN  << id, X - SourceStart(probed, id), Y >>

\* The span of the tile being swept.
TileLeft == tx * tile_size
TileTop == ty * tile_size
TileRight == Min(TileLeft + tile_size, CanvasWidth(img_sizes))
TileBottom == Min(TileTop + tile_size, CanvasHeight(img_sizes))

\* The sources whose extent [start, start + width) meets [left, right).
Overlapping ==
    { id \in 0..(Len(img_sizes) - 1) :
        /\ SourceStart(img_sizes, id) < TileRight
        /\ SourceStart(img_sizes, id) + img_sizes[id + 1][1] > TileLeft }

\* ------------------------------------------------------------------ C1

\* C1: in the sweep of the finest grid, the tile extract(tx, ty) returns has
\* the size of the rectangle [tx*tile_size, min(tx*tile_size + tile_size,
\* full_width)) x [ty*tile_size, min(ty*tile_size + tile_size, full_height))
\* and its pixel (x, y) is the reference canvas pixel at (tx*tile_size + x,
\* ty*tile_size + y), also where the tile spans two or more sources; and
\* extract does not panic.
C1_ExtractMatchesCanvas ==
    /\ pc = "save" =>
        /\ img_tile.width = TileRight - TileLeft
        /\ img_tile.height = TileBottom - TileTop
        /\ \A x \in 0..(img_tile.width - 1) :
             \A y \in 0..(img_tile.height - 1) :
               TilePixel(img_tile, x, y)
                 = CanvasPixel(img_sizes, TileLeft + x, TileTop + y)
    /\ ~(pc = "panic" /\ img_sizes # << >> /\ parent_level = 0)

\* A tile of the third column made of pixels of three sources.
C1_Witness ==
    /\ pc = "save"
    /\ tx = 2
    /\ Cardinality({ TilePixel(img_tile, x, 0)[1] :
                       x \in 0..(img_tile.width - 1) }) = 3

\* ------------------------------------------------------------------ C4

\* C4: after every extract(tx, ty) of the sweep the sources resident in
\* img_cache are among those whose extent [accum_left, accum_left + width)
\* meets the tile's span [left, right); a source ending exactly at left is
\* not resident.
C4_CacheWithinSpan ==
    pc = "save" => DOMAIN img_cache \subseteq Overlapping

\* ------------------------------------------------------------------ C10

\* C10: over the whole sweep (tx outer, ty inner) every source is decoded at
\* most once: a source removed from img_cache is never inserted again and a
\* resident source is never decoded again.
C10_DecodedOnce ==
    \A id \in DOMAIN decodes :
        /\ decodes[id] <= 1
        /\ id \in DOMAIN img_cache => decodes[id] = 1

\* In the third column of the second row of a sweep: the first source was
\* decoded and later removed, the second is resident and reused.
C10_Witness ==
    /\ pc = "save"
    /\ tx >= 1 /\ ty = 1
    /\ 0 \in DOMAIN decodes /\ decodes[0] = 1 /\ 0 \notin DOMAIN img_cache
    /\ \E id \in DOMAIN img_cache : decodes[id] = 1

\* ------------------------------------------------------- pyramid geometry

CeilDiv(a, b) == (a + b - 1) \div b

\* ceil(x/2) applied j times.
RECURSIVE HalveTimes(_, _)
HalveTimes(n, j) == IF j = 0 THEN n ELSE HalveTimes(CeilDiv(n, 2), j - 1)

\* The number of halvings between the finest level and level k.
Halvings(k) == levels - 1 - k

\* The tile grid of level k: the finest grid, halved once per level.
GridWidth(k) ==
    HalveTimes(CeilDiv(CanvasWidth(img_sizes), tile_size), Halvings(k))
GridHeight(k) ==
    HalveTimes(CeilDiv(CanvasHeight(img_sizes), tile_size), Halvings(k))

\* The pixel size of level k.
LevelWidth(k) == CeilDiv(CanvasWidth(img_sizes), Pow2(Halvings(k)))
LevelHeight(k) == CeilDiv(CanvasHeight(img_sizes), Pow2(Halvings(k)))

TilesOfLevel(k) == { key \in DOMAIN files : key[1] = k }

LevelComplete(k) ==
    TilesOfLevel(k) = { << k, x, y >> : x \in 0..(GridWidth(k) - 1),
                                        y \in 0..(GridHeight(k) - 1) }

InGrid(path, count_w, count_h) == path[2] < count_w /\ path[3] < count_h

Aborted == pc \in {"error", "panic"}

\* ------------------------------------------------------------------ C5

\* C5: with levels = levels_for(max(full_width, full_height)), halving the
\* finest grid ceil(full_width/512) x ceil(full_height/512) once per level
\* from levels - 1 down to 0 gives a 1 x 1 grid at level 0, so exactly one
\* tile, 0_0, is written at level 0; and when the canvas fits in one tile
\* every level from levels - 1 to 0 holds exactly one tile.
C5_SingleRootTile ==
    /\ levels > 0 =>
        /\ GridWidth(0) = 1
        /\ GridHeight(0) = 1
    /\ \A key \in DOMAIN files :
        /\ key[1] \in 0..(levels - 1)
        /\ key[1] = 0 => key = << 0, 0, 0 >>
    /\ pc \in {"write_dzi", "done"} =>
        /\ parent_level = 0
        /\ parent_x_tiles = 1
        /\ parent_y_tiles = 1
        /\ TilesOfLevel(0) = { << 0, 0, 0 >> }
        /\ (full_width <= tile_size /\ full_height <= tile_size) =>
             \A k \in 0..(levels - 1) : TilesOfLevel(k) = { << k, 0, 0 >> }

\* A finished run over a 3 x 3 finest grid: 3 x 3, 2 x 2, then single tiles.
C5_Witness ==
    /\ pc = "done"
    /\ tile_count_width = 3 /\ tile_count_height = 3
    /\ levels = 12
    /\ Cardinality(DOMAIN files) = 9 + 4 + 10

\* ------------------------------------------------------------------ C6

\* C6: when a tile inside the grid of the level being halved cannot be opened
\* or decoded, the run aborts and the descriptor is never written; the tile
\* is never replaced by an empty placeholder.
C6_LoadFailureAborts ==
    faults > 0 => (Aborted /\ dzi = << >>)

\* ------------------------------------------------------------------ C7

\* The order of the steps: the finest grid is complete before any reduction,
\* level k + 1 is complete before the first tile of level k, the level being
\* written is the one below the level being read, and the descriptor comes
\* after the tile of level 0.
StepsInOrder ==
    /\ pc \in {"pyramid", "reduce_begin", "reduce", "reduce_end", "write_dzi", "done"}
         => LevelComplete(levels - 1)
    /\ \A k \in 0..(levels - 2) :
         TilesOfLevel(k) # {} => LevelComplete(k + 1)
    /\ pc = "reduce" =>
        /\ LevelComplete(parent_level)
        /\ \A k \in 0..(parent_level - 2) : TilesOfLevel(k) = {}
    /\ dzi # << >> => (pc = "done" /\ << 0, 0, 0 >> \in DOMAIN files)
    /\ pc \in {"write_dzi", "done"} => \A k \in 0..(levels - 1) : LevelComplete(k)

\* C7: the steps are strictly ordered (finest grid, then each level from
\* levels - 2 down to 0 reading only the level above, then the descriptor);
\* and when an extraction, a load or a persist step fails, no later step
\* executes and the descriptor is never written.
C7_OrderedAndFailFast ==
    /\ StepsInOrder
    /\ faults > 0 => (Aborted /\ dzi = << >>)

\* ------------------------------------------------------------------ C8

TileWidthAt(k, x, y) ==
    IF << k, x, y >> \in DOMAIN files THEN files[<< k, x, y >>].width ELSE 0
TileHeightAt(k, x, y) ==
    IF << k, x, y >> \in DOMAIN files THEN files[<< k, x, y >>].height ELSE 0

RECURSIVE RowWidth(_, _, _)
RowWidth(k, n, y) ==
    IF n = 0 THEN 0 ELSE TileWidthAt(k, n - 1, y) + RowWidth(k, n - 1, y)

\* C8: every tile written at level k has the ceiling-half size of its 2x2
\* children, so that tile (tx, ty) of level k, j = levels - 1 - k halvings
\* down, is min(512, ceil(full_width/2^j) - 512*tx) wide and
\* min(512, ceil(full_height/2^j) - 512*ty) high: no tile exceeds 512, every
\* non-trailing tile is exactly 512, the widths of a row sum to
\* ceil(full_width/2^j), and the tile of level 0 is 1 x 1 pixel.
C8_TileSizes ==
    \A key \in DOMAIN files :
        LET k == key[1]
            x == key[2]
            y == key[3]
            t == files[key]
        IN  /\ k < levels - 1 =>
                /\ t.width = CeilDiv(TileWidthAt(k + 1, 2 * x, 2 * y)
                                     + TileWidthAt(k + 1, 2 * x + 1, 2 * y), 2)
                /\ t.height = CeilDiv(TileHeightAt(k + 1, 2 * x, 2 * y)
                                      + TileHeightAt(k + 1, 2 * x, 2 * y + 1), 2)
            /\ t.width = Min(tile_size, LevelWidth(k) - tile_size * x)
            /\ t.height = Min(tile_size, LevelHeight(k) - tile_size * y)
            /\ t.width <= tile_size /\ t.height <= tile_size
            /\ x + 1 < GridWidth(k) => t.width = tile_size
            /\ y + 1 < GridHeight(k) => t.height = tile_size
            /\ LevelComplete(k) => RowWidth(k, GridWidth(k), y) = LevelWidth(k)
            /\ k = 0 => (t.width = 1 /\ t.height = 1)

\* ------------------------------------------------------------------ C9

\* C9: in a run started on an empty output directory, for every 2x2 group
\* visited the top-left child exists, a right, bottom or bottom-right child
\* is absent exactly when its index is outside the level's grid, and the four
\* size assertions of half_res hold: half_res never panics.
C9_GroupsWellFormed ==
    /\ pc = "reduce" =>
        LET paths == group_paths(parent_level, tx, ty) IN
        /\ paths[1] \in DOMAIN files
        /\ \A i \in 2..4 :
             paths[i] \notin DOMAIN files
               <=> ~InGrid(paths[i], parent_x_tiles, parent_y_tiles)
    /\ ~(pc = "panic" /\ parent_level >= 1)

\* What holds of the sizes and of the groups as long as no failed open was
\* replaced by a placeholder.
SizesUnlessSwallowed == ~swallowed => C8_TileSizes
GroupsUnlessSwallowed == ~swallowed => C9_GroupsWellFormed

====
